---- MODULE Spec2Model ----
(***************************************************************************)
(* The streak fetcher of github-readme-stats-fast.  The repository holds   *)
(* two copies of the fetcher module:                                       *)
(*   src/unnamed/part_001               (one aliased calendar request,     *)
(*                                       day-by-day current-streak walk)   *)
(*   src/src/fetchers/streak-fetcher.js (one calendar request per year,    *)
(*                                       current-streak walk over the      *)
(*                                       recorded dates)                   *)
(* and the request handler src/unnamed/part_000 that calls fetchStreak.    *)
(* Definitions without a suffix model part_001; definitions ending in _sf  *)
(* model streak-fetcher.js where its code differs.                         *)
(*                                                                         *)
(* An ISO date string "YYYY-MM-DD" is the tuple <<y, m, d>>; JavaScript's  *)
(* string order on such zero-padded strings is the lexicographic order of  *)
(* the tuples.  A Date object is its UTC day number (days since            *)
(* 1970-01-01); every Date the code builds is a UTC midnight.              *)
(***************************************************************************)
EXTENDS Integers, Sequences, FiniteSets, TLC

VARIABLES
  file,           \* which copy of the fetcher module is loaded
  caller,         \* "handler": through the request handler; "direct": fetchStreak called directly
  username,       \* req.query.username / the username argument ("" when missing)
  token,          \* whether PAT_1 / GITHUB_TOKEN is configured
  now,            \* the wall clock: the UTC calendar date new Date() reads
  hpc,            \* position of the request handler
  pc,             \* position of the fetchStreak invocation
  years,          \* const years (result of fetchContributionYears)
  yearIdx,        \* streak-fetcher.js: number of years of the for loop already fetched
  contributions,  \* the date -> count map being built / handed to calculateStreaks
  requests,       \* upstream requests issued so far, in order
  emitted,        \* the day observations merged so far, in processing order
  locals,         \* calculateStreaks' local variables at its return statement
  result,         \* the value fetchStreak resolves with
  calls,          \* how many times calculateStreaks has run
  error,          \* the CustomError fetchStreak rejects with
  condition,      \* which failure condition occurred ("none" while none has)
  sent,           \* what the handler passed to res.send
  frame,          \* the activation record of a calculateStreaks call run statement by statement
  inv,            \* the fetchStreak invocations in flight together, by invocation number
  heap            \* the series objects those invocations created, by object number

vars == <<file, caller, username, token, now, hpc, pc, years, yearIdx,
          contributions, requests, emitted, locals, result, calls, error, condition,
          sent, frame, inv, heap>>

(***************************************************************************)
(* Bounds of the model.                                                    *)
(***************************************************************************)
NumDays == 4      \* calendar days a series may record (window starting at FirstDate)
MaxCount == 2     \* largest contributionCount
MaxObs == 1       \* day observations per year in an upstream calendar response

FirstDate == <<2023, 12, 30>>
Null == <<"null">>          \* JavaScript null
EmptyString == <<>>         \* the string ""

(***************************************************************************)
(* JavaScript Date arithmetic (ECMAScript MakeDay / YearFromTime), on UTC  *)
(* day numbers.                                                            *)
(***************************************************************************)
\* new Date("YYYY-MM-DD") / new Date(s + "T00:00:00Z"): the UTC day number
DateParse(iso) ==
  LET y0 == iso[1]  m == iso[2]  d == iso[3]
      y == IF m <= 2 THEN y0 - 1 ELSE y0
      era == y \div 400
      yoe == y - era * 400
      mp == IF m > 2 THEN m - 3 ELSE m + 9
      doy == (153 * mp + 2) \div 5 + d - 1
      doe == yoe * 365 + yoe \div 4 - yoe \div 100 + doy
  IN era * 146097 + doe - 719468

\* date.toISOString().split("T")[0] of a UTC-midnight Date
ToISODate(day) ==
  LET z == day + 719468
      era == z \div 146097
      doe == z - era * 146097
      yoe == (doe - doe \div 1460 + doe \div 36524 - doe \div 146096) \div 365
      doy == doe - (365 * yoe + yoe \div 4 - yoe \div 100)
      mp == (5 * doy + 2) \div 153
      d == doy - (153 * mp + 2) \div 5 + 1
      m == IF mp < 10 THEN mp + 3 ELSE mp - 9
      y == yoe + era * 400 + (IF m <= 2 THEN 1 ELSE 0)
  IN <<y, m, d>>

\* Date.UTC(year, month, date): date may be 0 or negative and is normalised
DateUTC(y, m, d) == DateParse(<<y, m, 1>>) + d - 1

\* a < b on ISO date strings (code-unit order of zero-padded strings)
StrLess(a, b) ==
  \/ a[1] < b[1]
  \/ a[1] = b[1] /\ a[2] < b[2]
  \/ a[1] = b[1] /\ a[2] = b[2] /\ a[3] < b[3]

MsPerDay == 86400000

\* (new Date(date) - new Date(prevDate)) / (1000 * 60 * 60 * 24)
\* (an exact multiple of a day, so the division is exact)
DayDiff(date, prevDate) ==
  ((DateParse(date) - DateParse(prevDate)) * MsPerDay) \div MsPerDay

MonthShort ==
  <<"Jan", "Feb", "Mar", "Apr", "May", "Jun",
    "Jul", "Aug", "Sep", "Oct", "Nov", "Dec">>

\* formatDateForDisplay: "" for a null date, else "Mon D" or "Mon D, YYYY"
\* (toLocaleDateString("en-US", ...) on a host whose time zone is UTC)
formatDateForDisplay(dateString, includeYear) ==
  IF dateString = Null \/ dateString = EmptyString THEN EmptyString
  ELSE LET date == ToISODate(DateParse(dateString))
       IN IF includeYear
            THEN <<MonthShort[date[2]], date[3], date[1]>>
            ELSE <<MonthShort[date[2]], date[3]>>

(***************************************************************************)
(* calculateStreaks.  contributions is a function from the recorded ISO    *)
(* dates to their counts.                                                  *)
(***************************************************************************)
RECURSIVE SortStrings(_)
\* Array.prototype.sort() on a set of distinct ISO date strings
SortStrings(S) ==
  IF S = {} THEN <<>>
  ELSE LET least == CHOOSE a \in S : \A b \in S \ {a} : StrLess(a, b)
       IN <<least>> \o SortStrings(S \ {least})

\* const dates = Object.keys(contributions).sort()
dates(c) == SortStrings(DOMAIN c)

\* mutant: the first recorded date, whatever its count
FirstPositive_AnyCount(c, ds, i) ==
  IF i > Len(ds) THEN Null ELSE ds[i]

RECURSIVE FirstPositive(_, _, _)
FirstPositive(c, ds, i) ==
  IF i > Len(ds) THEN Null
  ELSE IF c[ds[i]] > 0 THEN ds[i]
  ELSE FirstPositive(c, ds, i + 1)

\* the loop that finds the first actual contribution date
firstContribution(c) == FirstPositive(c, dates(c), 1)

RECURSIVE SumCounts(_, _, _)
SumCounts(c, ds, i) ==
  IF i > Len(ds) THEN 0 ELSE c[ds[i]] + SumCounts(c, ds, i + 1)

\* the loop that adds up totalContributions
totalContributions(c) == SumCounts(c, dates(c), 1)

\* const today: the UTC calendar date of the clock reading
today(clock) == ToISODate(DateUTC(clock[1], clock[2], clock[3]))

\* const yesterday: Date.UTC(year, month, date - 1)
yesterday(clock) == ToISODate(DateUTC(clock[1], clock[2], clock[3] - 1))

\* contributions[key] || 0
CountOrZero(c, key) == IF key \in DOMAIN c /\ c[key] # 0 THEN c[key] ELSE 0

\* let startDate: today, else yesterday, else null
startDate(c, clock) ==
  IF CountOrZero(c, today(clock)) > 0 THEN today(clock)
  ELSE IF CountOrZero(c, yesterday(clock)) > 0 THEN yesterday(clock)
  ELSE Null

NoStreak == [currentStreak |-> 0, currentStreakStart |-> Null, currentStreakEnd |-> Null]

\* calculateStreaks not entered: nothing read, nothing derived
NoFrame ==
  [pos |-> "none", reads |-> 0, now |-> Null, today |-> Null, yesterday |-> Null,
   cur |-> NoStreak]

RECURSIVE WalkBack_RangeSwapped(_, _, _)
\* mutant: the range is tracked the wrong way round (the start is set once,
\* the end follows the walk)
WalkBack_RangeSwapped(c, checkDate, st) ==
  LET dateStr == ToISODate(checkDate)
  IN IF dateStr \in DOMAIN c /\ c[dateStr] > 0
       THEN WalkBack_RangeSwapped(c, checkDate - 1,
              [currentStreak |-> st.currentStreak + 1,
               currentStreakStart |-> IF st.currentStreakStart = Null THEN dateStr
                                      ELSE st.currentStreakStart,
               currentStreakEnd |-> dateStr])
       ELSE st

RECURSIVE WalkBack(_, _, _)
\* part_001: while (true) over checkDate, one calendar day back per round
WalkBack(c, checkDate, st) ==
  LET dateStr == ToISODate(checkDate)
  IN IF dateStr \in DOMAIN c /\ c[dateStr] > 0   \* count !== undefined && count > 0
       THEN WalkBack(c, checkDate - 1,
              [currentStreak |-> st.currentStreak + 1,
               currentStreakEnd |-> IF st.currentStreakEnd = Null THEN dateStr
                                    ELSE st.currentStreakEnd,
               currentStreakStart |-> dateStr])
       ELSE st

\* part_001: the current streak and its range
currentStreak(c, clock) ==
  IF startDate(c, clock) # Null
    THEN WalkBack(c, DateParse(startDate(c, clock)), NoStreak)
    ELSE NoStreak

RECURSIVE WalkDates_sf(_, _, _, _, _)
\* streak-fetcher.js: for (let i = dates.length - 1; i >= 0; i--) over the
\* recorded dates; i here is the 1-based index
WalkDates_sf(c, ds, tdy, i, st) ==
  IF i < 1 THEN st.acc
  ELSE LET date == ds[i]
           count == c[date]
       IN IF StrLess(tdy, date) THEN WalkDates_sf(c, ds, tdy, i - 1, st)
          ELSE IF st.streaking
            THEN IF count > 0
              THEN WalkDates_sf(c, ds, tdy, i - 1,
                     [streaking |-> TRUE,
                      acc |-> [currentStreak |-> st.acc.currentStreak + 1,
                               currentStreakEnd |->
                                 IF st.acc.currentStreakEnd = Null THEN date
                                 ELSE st.acc.currentStreakEnd,
                               currentStreakStart |-> date]])
              ELSE WalkDates_sf(c, ds, tdy, i - 1,
                     [streaking |-> ~(date = tdy \/ StrLess(date, tdy)),
                      acc |-> st.acc])
            ELSE WalkDates_sf(c, ds, tdy, i - 1, st)

\* streak-fetcher.js: the current streak and its range
currentStreak_sf(c, clock) ==
  WalkDates_sf(c, dates(c), today(clock), Len(dates(c)),
               [streaking |-> TRUE, acc |-> NoStreak])

ScanInit ==
  [longestStreak |-> 0, longestStreakStart |-> Null, longestStreakEnd |-> Null,
   tempStreak |-> 0, tempStreakStart |-> Null, prevDate |-> Null]

\* mutant: a later run of equal length replaces the best one (>= for >)
ScanStep_LaterRunWins(c, date, st) ==
  LET count == c[date]
      extends == st.prevDate = Null \/ DayDiff(date, st.prevDate) = 1
      temp == IF extends THEN st.tempStreak + 1 ELSE 1
      tempStart == IF extends
                     THEN (IF st.tempStreak = 0 THEN date ELSE st.tempStreakStart)
                     ELSE date
      better == temp >= st.longestStreak
  IN IF count > 0
       THEN [longestStreak |-> IF better THEN temp ELSE st.longestStreak,
             longestStreakStart |-> IF better THEN tempStart ELSE st.longestStreakStart,
             longestStreakEnd |-> IF better THEN date ELSE st.longestStreakEnd,
             tempStreak |-> temp, tempStreakStart |-> tempStart, prevDate |-> date]
       ELSE [st EXCEPT !.tempStreak = 0, !.prevDate = date]

\* mutant: a zero count extends a run (count >= 0 for count > 0)
ScanStep_CountsZeroDays(c, date, st) ==
  LET count == c[date]
      extends == st.prevDate = Null \/ DayDiff(date, st.prevDate) = 1
      temp == IF extends THEN st.tempStreak + 1 ELSE 1
      tempStart == IF extends
                     THEN (IF st.tempStreak = 0 THEN date ELSE st.tempStreakStart)
                     ELSE date
      better == temp > st.longestStreak
  IN IF count >= 0
       THEN [longestStreak |-> IF better THEN temp ELSE st.longestStreak,
             longestStreakStart |-> IF better THEN tempStart ELSE st.longestStreakStart,
             longestStreakEnd |-> IF better THEN date ELSE st.longestStreakEnd,
             tempStreak |-> temp, tempStreakStart |-> tempStart, prevDate |-> date]
       ELSE [st EXCEPT !.tempStreak = 0, !.prevDate = date]

\* one round of the longest-streak for loop
ScanStep(c, date, st) ==
  LET count == c[date]
      extends == st.prevDate = Null \/ DayDiff(date, st.prevDate) = 1
      temp == IF extends THEN st.tempStreak + 1 ELSE 1
      tempStart == IF extends
                     THEN (IF st.tempStreak = 0 THEN date ELSE st.tempStreakStart)
                     ELSE date
      better == temp > st.longestStreak
  IN IF count > 0
       THEN [longestStreak |-> IF better THEN temp ELSE st.longestStreak,
             longestStreakStart |-> IF better THEN tempStart ELSE st.longestStreakStart,
             longestStreakEnd |-> IF better THEN date ELSE st.longestStreakEnd,
             tempStreak |-> temp, tempStreakStart |-> tempStart, prevDate |-> date]
       ELSE [st EXCEPT !.tempStreak = 0, !.prevDate = date]

RECURSIVE Scan(_, _, _, _)
Scan(c, ds, i, st) ==
  IF i > Len(ds) THEN st ELSE Scan(c, ds, i + 1, ScanStep(c, ds[i], st))

\* the longest streak and its range (the same code in both copies)
longestStreak(c) ==
  LET st == Scan(c, dates(c), 1, ScanInit)
  IN [longestStreak |-> st.longestStreak,
      longestStreakStart |-> st.longestStreakStart,
      longestStreakEnd |-> st.longestStreakEnd]

\* the local variables of calculateStreaks when it reaches its return statement
Locals(cur, c) ==
  [currentStreak |-> cur.currentStreak,
   longestStreak |-> longestStreak(c).longestStreak,
   totalContributions |-> totalContributions(c),
   firstContribution |-> firstContribution(c),
   currentStreakStart |-> cur.currentStreakStart,
   currentStreakEnd |-> cur.currentStreakEnd,
   longestStreakStart |-> longestStreak(c).longestStreakStart,
   longestStreakEnd |-> longestStreak(c).longestStreakEnd]

calculateStreaksLocals(c, clock) == Locals(currentStreak(c, clock), c)

calculateStreaksLocals_sf(c, clock) == Locals(currentStreak_sf(c, clock), c)

\* the object calculateStreaks returns: the dates formatted for display
Returned(l) ==
  [currentStreak |-> l.currentStreak,
   longestStreak |-> l.longestStreak,
   totalContributions |-> l.totalContributions,
   firstContribution |-> formatDateForDisplay(l.firstContribution, TRUE),
   currentStreakStart |-> formatDateForDisplay(l.currentStreakStart, FALSE),
   currentStreakEnd |-> formatDateForDisplay(l.currentStreakEnd, FALSE),
   longestStreakStart |-> formatDateForDisplay(l.longestStreakStart, FALSE),
   longestStreakEnd |-> formatDateForDisplay(l.longestStreakEnd, FALSE)]

calculateStreaks(c, clock) == Returned(calculateStreaksLocals(c, clock))

calculateStreaks_sf(c, clock) == Returned(calculateStreaksLocals_sf(c, clock))

(***************************************************************************)
(* The upstream collaborator (GitHub's GraphQL API behind request()).      *)
(***************************************************************************)
Files == {"part_001", "streak-fetcher.js"}
Years == {2023, 2024}
Window == {ToISODate(DateParse(FirstDate) + i) : i \in 0 .. NumDays - 1}
Counts == 0 .. MaxCount
\* the clock readings: every day of the window and the two days after it
Clocks == {ToISODate(DateParse(FirstDate) + i) : i \in 0 .. NumDays + 1}
\* every series over the window
AllSeries == UNION {[D -> Counts] : D \in SUBSET Window}

\* the dates the calendar responses of the fetch model may carry
ObsDates == {<<2023, 12, 31>>, <<2024, 1, 1>>}
Observations == [date : ObsDates, contributionCount : Counts]
ObsLists == UNION {[1 .. n -> Observations] : n \in 0 .. MaxObs}
\* contributionYears: the years in any order, none twice
YearLists ==
  {ys \in UNION {[1 .. n -> Years] : n \in 0 .. Cardinality(Years)} :
     \A i, j \in 1 .. Len(ys) : i # j => ys[i] # ys[j]}
\* the message of the error a failed request() rejects with ("" for none)
RejectMessages == {"Network Error", ""}

USER_NOT_FOUND == "USER_NOT_FOUND"
GRAPHQL_ERROR == "GRAPHQL_ERROR"

\* new CustomError(message, type)
CustomError(message, type) == [message |-> message, type |-> type]

\* the catch block of fetchStreak: every error is rethrown as GRAPHQL_ERROR
Rethrow(message) ==
  CustomError(IF message # "" THEN message ELSE "Could not fetch streak data.",
              GRAPHQL_ERROR)

RECURSIVE MergeDays_KeepsFirst(_, _, _)
\* mutant: a date already in the map keeps its first value
MergeDays_KeepsFirst(c, days, i) ==
  IF i > Len(days) THEN c
  ELSE MergeDays_KeepsFirst(
         [d \in DOMAIN c \cup {days[i].date} |->
            IF d \in DOMAIN c THEN c[d] ELSE days[i].contributionCount],
         days, i + 1)

\* contributions[day.date] = day.contributionCount, for each day in order
RECURSIVE MergeDays(_, _, _)
MergeDays(c, days, i) ==
  IF i > Len(days) THEN c
  ELSE MergeDays([d \in DOMAIN c \cup {days[i].date} |->
                    IF d = days[i].date THEN days[i].contributionCount ELSE c[d]],
                 days, i + 1)

\* part_001: for (const year of years) over user[`y${year}`]; user maps the
\* years whose alias carries contributionCalendar.weeks to their days
RECURSIVE MergeYears(_, _, _, _)
MergeYears(c, ys, user, i) ==
  IF i > Len(ys) THEN c
  ELSE MergeYears(IF ys[i] \in DOMAIN user THEN MergeDays(c, user[ys[i]], 1) ELSE c,
                  ys, user, i + 1)

\* the observations of a part_001 calendar response in processing order
RECURSIVE Flatten(_, _, _)
Flatten(ys, user, i) ==
  IF i > Len(ys) THEN <<>>
  ELSE (IF ys[i] \in DOMAIN user THEN user[ys[i]] ELSE <<>>) \o Flatten(ys, user, i + 1)

EmptySeries == [d \in {} |-> 0]

(***************************************************************************)
(* The request handler (part_000) and fetchStreak.  fetchStreak runs       *)
(* synchronously up to each await of an upstream request; one action is    *)
(* one such run.                                                           *)
(***************************************************************************)
\* return calculateStreaks(contributions), by the copy that is loaded
Calculated(c, clock) ==
  IF file = "part_001" THEN calculateStreaksLocals(c, clock)
  ELSE calculateStreaksLocals_sf(c, clock)

Idle ==
  /\ pc = "idle" /\ years = <<>> /\ yearIdx = 0 /\ contributions = EmptySeries
  /\ requests = <<>> /\ emitted = <<>> /\ locals = Null /\ result = Null
  /\ calls = 0 /\ error = Null /\ condition = "none" /\ sent = Null

Init ==
  /\ file \in Files
  /\ caller \in {"handler", "direct"}
  /\ username \in {"", "octocat"}
  /\ token \in BOOLEAN
  /\ now \in Clocks
  /\ hpc = IF caller = "handler" THEN "received" ELSE "none"
  /\ Idle
  /\ frame = NoFrame /\ inv = <<>> /\ heap = <<>>

\* the handler up to its first await: the username and token checks, then
\* the call of fetchStreak
Handler ==
  /\ hpc = "received"
  /\ IF username = ""
       THEN /\ sent' = [kind |-> "error", message |-> "Something went wrong",
                        secondary |-> "Missing username parameter (query)"]
            /\ hpc' = "done" /\ pc' = pc
     ELSE IF ~token
       THEN /\ sent' = [kind |-> "error", message |-> "Something went wrong",
                        secondary |-> "GitHub token is not configured"]
            /\ hpc' = "done" /\ pc' = pc
     ELSE /\ hpc' = "awaiting" /\ pc' = "called" /\ sent' = sent
  /\ UNCHANGED <<file, caller, username, token, now, years, yearIdx,
                 contributions, requests, emitted, locals, result, calls, error,
                 condition>>
  /\ UNCHANGED <<frame, inv, heap>>

\* a direct caller invokes fetchStreak(username, token)
DirectCall ==
  /\ caller = "direct" /\ pc = "idle"
  /\ pc' = "called"
  /\ UNCHANGED <<file, caller, username, token, now, hpc, years, yearIdx,
                 contributions, requests, emitted, locals, result, calls, error,
                 condition, sent>>
  /\ UNCHANGED <<frame, inv, heap>>

\* mutant: fetchStreak without its username check
FetchStreak_NoUsernameCheck ==
  /\ pc = "called"
  /\ requests' = Append(requests, [query |-> "contributionYears"])
  /\ pc' = "awaitYears"
  /\ UNCHANGED <<file, caller, username, token, now, hpc, years, yearIdx,
                 contributions, emitted, locals, result, calls, error,
                 condition, sent>>
  /\ UNCHANGED <<frame, inv, heap>>

\* fetchStreak up to its first await: the username check, then the request
\* of fetchContributionYears
FetchStreak ==
  /\ pc = "called"
  /\ IF username = ""
       THEN /\ error' = CustomError("Missing username parameter", USER_NOT_FOUND)
            /\ condition' = "missing"
            /\ pc' = "rejected" /\ requests' = requests
       ELSE /\ requests' = Append(requests, [query |-> "contributionYears"])
            /\ pc' = "awaitYears" /\ UNCHANGED <<error, condition>>
  /\ UNCHANGED <<file, caller, username, token, now, hpc, years, yearIdx,
                 contributions, emitted, locals, result, calls, sent>>
  /\ UNCHANGED <<frame, inv, heap>>

\* the request of a calendar: all years at once (part_001) or one year
CalendarRequest(ys, i) ==
  IF file = "part_001" THEN [query |-> "calendar", years |-> ys]
  ELSE [query |-> "calendar", years |-> <<ys[i]>>]

\* fetchStreak resolves with the result of calculateStreaks
Resolve(c) ==
  /\ locals' = Calculated(c, now)
  /\ result' = Returned(Calculated(c, now))
  /\ calls' = calls + 1
  /\ pc' = "resolved"

\* an upstream response carries no user: fetchContributionYears or the
\* calendar fetch throws CustomError("Could not fetch user.", USER_NOT_FOUND),
\* and the catch block of fetchStreak rethrows it
UserNotFound ==
  /\ pc \in {"awaitYears", "awaitCalendar"}
  /\ error' = Rethrow(CustomError("Could not fetch user.", USER_NOT_FOUND).message)
  /\ condition' = "notfound"
  /\ pc' = "rejected"
  /\ UNCHANGED <<file, caller, username, token, now, hpc, years, yearIdx,
                 contributions, requests, emitted, locals, result, calls, sent>>
  /\ UNCHANGED <<frame, inv, heap>>

\* mutant: a failed request is issued again instead of failing the call
RequestFails_Retries ==
  /\ pc \in {"awaitYears", "awaitCalendar"}
  /\ Len(requests) < 4
  /\ requests' = Append(requests, requests[Len(requests)])
  /\ UNCHANGED <<file, caller, username, token, now, hpc, pc, years, yearIdx,
                 contributions, emitted, locals, result, calls, error,
                 condition, sent>>
  /\ UNCHANGED <<frame, inv, heap>>

\* an upstream request fails otherwise (request() rejects, or the response
\* is malformed and reading it throws); the catch block rethrows the error
RequestFails ==
  /\ pc \in {"awaitYears", "awaitCalendar"}
  /\ \E message \in RejectMessages : error' = Rethrow(message)
  /\ condition' = "other"
  /\ pc' = "rejected"
  /\ UNCHANGED <<file, caller, username, token, now, hpc, years, yearIdx,
                 contributions, requests, emitted, locals, result, calls, sent>>
  /\ UNCHANGED <<frame, inv, heap>>

\* the year listing arrives; the continuation runs to the next await
YearsArrive ==
  /\ pc = "awaitYears"
  /\ \E ys \in YearLists :
       /\ years' = ys
       /\ IF file = "part_001" \/ ys # <<>>
            THEN /\ requests' = Append(requests, CalendarRequest(ys, 1))
                 /\ pc' = "awaitCalendar"
                 /\ UNCHANGED <<locals, result, calls>>
            ELSE /\ requests' = requests
                 /\ Resolve(contributions)
  /\ UNCHANGED <<file, caller, username, token, now, hpc, yearIdx,
                 contributions, emitted, error, condition, sent>>
  /\ UNCHANGED <<frame, inv, heap>>

\* part_001: the calendar of all years arrives, is merged and evaluated
AllYearsArrive ==
  /\ pc = "awaitCalendar" /\ file = "part_001"
  /\ \E present \in SUBSET {years[i] : i \in 1 .. Len(years)} :
     \E user \in [present -> ObsLists] :
       /\ contributions' = MergeYears(EmptySeries, years, user, 1)
       /\ emitted' = Flatten(years, user, 1)
       /\ Resolve(contributions')
  /\ UNCHANGED <<file, caller, username, token, now, hpc, years, yearIdx,
                 requests, error, condition, sent>>
  /\ UNCHANGED <<frame, inv, heap>>

\* streak-fetcher.js: the calendar of one year arrives and is merged; the
\* loop requests the next year, or the series is evaluated
YearArrives ==
  /\ pc = "awaitCalendar" /\ file = "streak-fetcher.js"
  /\ \E days \in ObsLists :
       /\ contributions' = MergeDays(contributions, days, 1)
       /\ emitted' = emitted \o days
       /\ yearIdx' = yearIdx + 1
       /\ IF yearIdx' < Len(years)
            THEN /\ requests' = Append(requests, CalendarRequest(years, yearIdx' + 1))
                 /\ UNCHANGED <<pc, locals, result, calls>>
            ELSE /\ requests' = requests
                 /\ Resolve(contributions')
  /\ UNCHANGED <<file, caller, username, token, now, hpc, years, error,
                 condition, sent>>
  /\ UNCHANGED <<frame, inv, heap>>

\* the handler after its await: the card, or the error of the catch block
\* (err.secondaryMessage is derived from the error's type by the CustomError
\* class of common/utils.js; the type stands for it here)
HandlerSends ==
  /\ hpc = "awaiting" /\ pc \in {"resolved", "rejected"}
  /\ sent' = IF pc = "resolved" THEN [kind |-> "card", streak |-> result]
             ELSE [kind |-> "error", message |-> error.message, secondary |-> error.type]
  /\ hpc' = "done"
  /\ UNCHANGED <<file, caller, username, token, now, pc, years, yearIdx,
                 contributions, requests, emitted, locals, result, calls, error,
                 condition>>
  /\ UNCHANGED <<frame, inv, heap>>

Next ==
  \/ Handler
  \/ DirectCall
  \/ FetchStreak
  \/ UserNotFound
  \/ RequestFails
  \/ YearsArrive
  \/ AllYearsArrive
  \/ YearArrives
  \/ HandlerSends

Spec == Init /\ [][Next]_vars

(***************************************************************************)
(* calculateStreaks on its own: every series over the window, every clock  *)
(* reading, evaluated by the copy that is loaded.                          *)
(***************************************************************************)
InitCalc ==
  /\ file \in Files
  /\ caller = "direct" /\ username = "octocat" /\ token = TRUE /\ hpc = "none"
  /\ now \in Clocks
  /\ contributions \in AllSeries
  /\ pc = "calculate"
  /\ years = <<>> /\ yearIdx = 0 /\ requests = <<>> /\ emitted = <<>>
  /\ locals = Null /\ result = Null /\ calls = 0 /\ error = Null
  /\ condition = "none" /\ sent = Null
  /\ frame = NoFrame /\ inv = <<>> /\ heap = <<>>

CalculateStreaks ==
  /\ pc = "calculate"
  /\ Resolve(contributions)
  /\ UNCHANGED <<file, caller, username, token, now, hpc, years, yearIdx,
                 contributions, requests, emitted, error, condition, sent>>
  /\ UNCHANGED <<frame, inv, heap>>

SpecCalc == InitCalc /\ [][CalculateStreaks]_vars

(***************************************************************************)
(* calculateStreaks statement by statement, while the wall clock runs.     *)
(* The function is synchronous; the only thing that moves during it is the *)
(* clock, which may pass a UTC midnight between any two statements.        *)
(***************************************************************************)
\* only count > 0 is ever tested by the walks: counts 0 and 1 suffice here
ClockSeries == {c \in AllSeries : \A d \in DOMAIN c : c[d] <= 1}

\* let startDate, from the strings today and yesterday already derived
StartFrom(c, tdy, yst) ==
  IF CountOrZero(c, tdy) > 0 THEN tdy
  ELSE IF CountOrZero(c, yst) > 0 THEN yst
  ELSE Null

InitClock ==
  /\ file \in Files
  /\ caller = "direct" /\ username = "octocat" /\ token = TRUE /\ hpc = "none"
  /\ now \in Clocks
  /\ contributions \in ClockSeries
  /\ pc = "calculate"
  /\ years = <<>> /\ yearIdx = 0 /\ requests = <<>> /\ emitted = <<>>
  /\ locals = Null /\ result = Null /\ calls = 0 /\ error = Null
  /\ condition = "none" /\ sent = Null
  /\ frame = [NoFrame EXCEPT !.pos = "entry"]
  /\ inv = <<>> /\ heap = <<>>

\* the wall clock passes a UTC midnight
Tick ==
  /\ ToISODate(DateParse(now) + 1) \in Clocks
  /\ now' = ToISODate(DateParse(now) + 1)
  /\ UNCHANGED <<file, caller, username, token, hpc, pc, years, yearIdx,
                 contributions, requests, emitted, locals, result, calls, error,
                 condition, sent, frame, inv, heap>>

\* the statements up to const now = new Date(): the one reading of the clock
ReadClock ==
  /\ frame.pos = "entry"
  /\ frame' = [frame EXCEPT !.pos = "today", !.now = now, !.reads = @ + 1]
  /\ UNCHANGED <<file, caller, username, token, now, hpc, pc, years, yearIdx,
                 contributions, requests, emitted, locals, result, calls, error,
                 condition, sent, inv, heap>>

\* const today, from the Date object now
DeriveToday ==
  /\ frame.pos = "today"
  /\ frame' = [frame EXCEPT !.today = today(frame.now),
                            !.pos = IF file = "part_001" THEN "yesterday" ELSE "walk"]
  /\ UNCHANGED <<file, caller, username, token, now, hpc, pc, years, yearIdx,
                 contributions, requests, emitted, locals, result, calls, error,
                 condition, sent, inv, heap>>

\* mutant: yesterday is derived from a second reading of the clock
DeriveYesterday_RereadsClock ==
  /\ frame.pos = "yesterday"
  /\ frame' = [frame EXCEPT !.yesterday = yesterday(now), !.reads = @ + 1,
                            !.pos = "walk"]
  /\ UNCHANGED <<file, caller, username, token, now, hpc, pc, years, yearIdx,
                 contributions, requests, emitted, locals, result, calls, error,
                 condition, sent, inv, heap>>

\* part_001: const yesterdayDate / const yesterday, from the same Date object now
DeriveYesterday ==
  /\ frame.pos = "yesterday"
  /\ frame' = [frame EXCEPT !.yesterday = yesterday(frame.now), !.pos = "walk"]
  /\ UNCHANGED <<file, caller, username, token, now, hpc, pc, years, yearIdx,
                 contributions, requests, emitted, locals, result, calls, error,
                 condition, sent, inv, heap>>

\* the total and the current-streak walk, from the strings derived above
WalkCurrent ==
  /\ frame.pos = "walk"
  /\ frame' =
       [frame EXCEPT
          !.pos = "scan",
          !.cur = IF file = "part_001"
                    THEN LET start == StartFrom(contributions, frame.today, frame.yesterday)
                         IN IF start # Null
                              THEN WalkBack(contributions, DateParse(start), NoStreak)
                              ELSE NoStreak
                    ELSE WalkDates_sf(contributions, dates(contributions), frame.today,
                                      Len(dates(contributions)),
                                      [streaking |-> TRUE, acc |-> NoStreak])]
  /\ UNCHANGED <<file, caller, username, token, now, hpc, pc, years, yearIdx,
                 contributions, requests, emitted, locals, result, calls, error,
                 condition, sent, inv, heap>>

\* the longest-streak scan and the return statement
ScanAndReturn ==
  /\ frame.pos = "scan"
  /\ frame' = [frame EXCEPT !.pos = "returned"]
  /\ locals' = Locals(frame.cur, contributions)
  /\ result' = Returned(locals')
  /\ calls' = calls + 1
  /\ pc' = "resolved"
  /\ UNCHANGED <<file, caller, username, token, now, hpc, years, yearIdx,
                 contributions, requests, emitted, error, condition, sent, inv, heap>>

NextClock ==
  \/ Tick
  \/ ReadClock
  \/ DeriveToday
  \/ DeriveYesterday
  \/ WalkCurrent
  \/ ScanAndReturn

SpecClock == InitClock /\ [][NextClock]_vars

(***************************************************************************)
(* Several fetchStreak invocations in flight together.  Each runs          *)
(* synchronously from one await to the next; one action is one such run of *)
(* one invocation, and the runs of different invocations interleave        *)
(* freely.  A series is an object on the heap, named by the invocation's   *)
(* local variable contributions.                                           *)
(***************************************************************************)
\* the invocations in flight together
Invocations == {1, 2}
Usernames == {"", "octocat", "hubot"}
\* the clock readings of the fetch model: the last observed day and the next
ConcClocks == {<<2024, 1, 1>>, <<2024, 1, 2>>}
\* contributionYears as GitHub lists them, newest first
ConcYearLists == {<<>>, <<2024>>, <<2024, 2023>>}
\* a calendar response of the fetch model: at most one day, count 0 or 1
ConcObsLists ==
  {<<>>} \cup {<<[date |-> d, contributionCount |-> n]>> : d \in ObsDates, n \in {0, 1}}

\* mutant: one series object shared by all invocations
Binding_Shared(i) == 1

\* const contributions = {} / let contributions = {}: every evaluation of
\* the object literal creates an object of its own
Binding(i) == i

\* an invocation not yet called
NotCalled ==
  [pc |-> "idle", username |-> "", years |-> <<>>, yearIdx |-> 0, ref |-> 0,
   seen |-> <<>>, rejection |-> <<>>, result |-> <<>>, error |-> <<>>]

InitConc ==
  /\ file \in Files
  /\ caller = "direct" /\ username = "octocat" /\ token = TRUE /\ hpc = "none"
  /\ now \in ConcClocks
  /\ Idle
  /\ frame = NoFrame
  /\ inv = [i \in Invocations |-> NotCalled]
  /\ heap = <<>>

\* what SpecConc leaves alone: the single-invocation state and the clock
ConcUnchanged ==
  UNCHANGED <<file, caller, username, token, now, hpc, pc, years, yearIdx,
              contributions, requests, emitted, locals, result, calls, error,
              condition, sent, frame>>

\* return calculateStreaks(contributions) of invocation i, on the object its
\* variable names in heap h
Evaluate(i, h, r) ==
  [r EXCEPT !.pc = "resolved", !.result = <<Returned(Calculated(h[r.ref], now))>>]

\* fetchStreak(user, token) is called: the username check, then the request
\* of fetchContributionYears
Call(i) ==
  /\ inv[i].pc = "idle"
  /\ \E user \in Usernames :
       inv' = [inv EXCEPT ![i] =
                 IF user = ""
                   THEN [@ EXCEPT !.pc = "rejected", !.username = user,
                           !.error = <<CustomError("Missing username parameter",
                                                   USER_NOT_FOUND)>>]
                   ELSE [@ EXCEPT !.pc = "awaitYears", !.username = user]]
  /\ heap' = heap
  /\ ConcUnchanged

\* the year listing of invocation i arrives.  streak-fetcher.js creates the
\* series here and requests the first year (or evaluates the empty series);
\* part_001 requests the calendar of all years
YearsArriveConc(i) ==
  /\ inv[i].pc = "awaitYears"
  /\ \E ys \in ConcYearLists :
       IF file = "part_001"
         THEN /\ inv' = [inv EXCEPT ![i] = [@ EXCEPT !.pc = "awaitCalendar", !.years = ys]]
              /\ heap' = heap
         ELSE /\ heap' = (Binding(i) :> EmptySeries) @@ heap
              /\ inv' = [inv EXCEPT ![i] =
                           IF ys # <<>>
                             THEN [@ EXCEPT !.pc = "awaitCalendar", !.years = ys,
                                            !.ref = Binding(i)]
                             ELSE Evaluate(i, heap', [@ EXCEPT !.years = ys,
                                                               !.ref = Binding(i)])]
  /\ ConcUnchanged

\* part_001: the calendar of all years of invocation i arrives;
\* fetchAllYearsCalendar creates the series, merges every year into it and
\* returns it to the await of fetchStreak
AllYearsArriveConc(i) ==
  /\ inv[i].pc = "awaitCalendar" /\ file = "part_001"
  /\ \E present \in SUBSET {inv[i].years[k] : k \in 1 .. Len(inv[i].years)} :
     \E user \in [present -> ConcObsLists] :
       /\ heap' = (Binding(i) :> MergeYears(EmptySeries, inv[i].years, user, 1)) @@ heap
       /\ inv' = [inv EXCEPT ![i] =
                    [@ EXCEPT !.pc = "awaitSeries", !.ref = Binding(i),
                              !.seen = Flatten(inv[i].years, user, 1)]]
  /\ ConcUnchanged

\* part_001: the await of fetchAllYearsCalendar resumes fetchStreak, which
\* evaluates the series it was handed
SeriesReturned(i) ==
  /\ inv[i].pc = "awaitSeries"
  /\ inv' = [inv EXCEPT ![i] = Evaluate(i, heap, @)]
  /\ heap' = heap
  /\ ConcUnchanged

\* streak-fetcher.js: the calendar of one year of invocation i arrives and
\* is merged into the series; the loop requests the next year, or the series
\* is evaluated
YearArrivesConc(i) ==
  /\ inv[i].pc = "awaitCalendar" /\ file = "streak-fetcher.js"
  /\ \E days \in ConcObsLists :
       /\ heap' = [heap EXCEPT ![inv[i].ref] = MergeDays(@, days, 1)]
       /\ inv' = [inv EXCEPT ![i] =
                    IF inv[i].yearIdx + 1 < Len(inv[i].years)
                      THEN [@ EXCEPT !.yearIdx = @ + 1, !.seen = @ \o days]
                      ELSE Evaluate(i, heap', [@ EXCEPT !.yearIdx = @ + 1,
                                                        !.seen = @ \o days])]
  /\ ConcUnchanged

\* a request of invocation i fails: the response carries no user, or
\* request() rejects; the catch block rethrows, the invocation is rejected
RequestFailsConc(i) ==
  /\ inv[i].pc \in {"awaitYears", "awaitCalendar"}
  /\ \E message \in RejectMessages \cup {"Could not fetch user."} :
       inv' = [inv EXCEPT ![i] = [@ EXCEPT !.pc = "rejected", !.rejection = <<message>>,
                                           !.error = <<Rethrow(message)>>]]
  /\ heap' = heap
  /\ ConcUnchanged

NextConc ==
  \E i \in Invocations :
    \/ Call(i)
    \/ YearsArriveConc(i)
    \/ AllYearsArriveConc(i)
    \/ SeriesReturned(i)
    \/ YearArrivesConc(i)
    \/ RequestFailsConc(i)

SpecConc == InitConc /\ [][NextConc]_vars

(***************************************************************************)
(* What the claims speak of, stated on calendar days (UTC day numbers)     *)
(* and independently of the walks and scans above.                         *)
(***************************************************************************)
\* the days recorded with a strictly positive count
PositiveDays(c) == {DateParse(d) : d \in {k \in DOMAIN c : c[k] > 0}}

\* the length of the run of consecutive positive days that ends at day e
RunEndingAt(P, e) ==
  CHOOSE k \in 0 .. Cardinality(P) :
    /\ \A j \in 0 .. k - 1 : e - j \in P
    /\ e - k \notin P

\* the length of the longest run of consecutive positive days
MaxRun(P) ==
  IF P = {} THEN 0
  ELSE CHOOSE m \in {RunEndingAt(P, e) : e \in P} :
         \A e \in P : RunEndingAt(P, e) <= m

\* the sum of all counts of a series
RECURSIVE SumOver(_, _)
SumOver(c, D) ==
  IF D = {} THEN 0
  ELSE LET d == CHOOSE x \in D : TRUE IN c[d] + SumOver(c, D \ {d})

ClockDay == DateParse(now)
Evaluated == pc = "resolved"

\* the anchor policy: today, else yesterday, else no streak
AnchorPolicy ==
  LET P == PositiveDays(contributions)
      T == ClockDay
  IN /\ T \in P =>
          locals.currentStreak > 0 /\ locals.currentStreakEnd = ToISODate(T)
     /\ T \notin P /\ T - 1 \in P =>
          locals.currentStreak > 0 /\ locals.currentStreakEnd = ToISODate(T - 1)
     /\ T \notin P /\ T - 1 \notin P =>
          /\ locals.currentStreak = 0
          /\ locals.currentStreakStart = Null
          /\ locals.currentStreakEnd = Null
     /\ locals.currentStreak > 0 =>
          locals.currentStreakEnd \in {ToISODate(T), ToISODate(T - 1)}

\* C1: calculateStreaks anchors the current streak at today if today has a
\* positive count, else at yesterday if yesterday has one, else reports
\* streak 0 with both boundaries null; a positive streak ends today or
\* yesterday, never earlier.
C1_AnchorIsTodayOrYesterday == Evaluated => AnchorPolicy

\* the anchor policy, for the copy of part_001 alone
AnchorPolicy_part_001 == Evaluated /\ file = "part_001" => AnchorPolicy

\* the counted dates are a gap-free run of positive days ending at
\* currentStreakEnd, bounded below by an absent or zero day
GapFreeRun ==
  LET P == PositiveDays(contributions)
  IN locals.currentStreak > 0 =>
       LET s == DateParse(locals.currentStreakStart)
           e == DateParse(locals.currentStreakEnd)
       IN /\ \A day \in s .. e : day \in P
          /\ s - 1 \notin P
          /\ locals.currentStreak = e - s + 1

\* C2: the dates counted by the current-streak walk are a gap-free run of
\* consecutive calendar days with positive count; the day before
\* currentStreakStart is absent or zero; an absent date stops the walk as a
\* zero count does.
C2_CurrentStreakIsGapFree == Evaluated => GapFreeRun

\* the gap-free run, for the copy of part_001 alone
GapFreeRun_part_001 == Evaluated /\ file = "part_001" => GapFreeRun

\* C3: longestStreak is the maximum length of a run of consecutive calendar
\* days with positive count (0 if there is none), over all recorded dates,
\* also those after today; its boundaries are the first and last day of the
\* earliest run of that length.
C3_LongestIsEarliestMaxRun ==
  Evaluated =>
    LET P == PositiveDays(contributions)
        m == MaxRun(P)
    IN /\ locals.longestStreak = m
       /\ m = 0 => locals.longestStreakStart = Null /\ locals.longestStreakEnd = Null
       /\ m > 0 =>
            LET ends == {e \in P : RunEndingAt(P, e) = m}
                first == CHOOSE e \in ends : \A x \in ends : e <= x
            IN /\ locals.longestStreakEnd = ToISODate(first)
               /\ locals.longestStreakStart = ToISODate(first - m + 1)

\* two runs of the maximum length exist, one of them after today, and the
\* earlier one is reported
C3_Witness ==
  /\ Evaluated
  /\ LET P == PositiveDays(contributions)
         ends == {e \in P : RunEndingAt(P, e) = MaxRun(P)}
     IN /\ Cardinality(ends) >= 2
        /\ \E e \in ends : e > ClockDay
        /\ \E d \in DOMAIN contributions : contributions[d] = 0
        /\ \A e \in ends : DateParse(locals.longestStreakEnd) <= e

\* C4: firstContribution is the earliest date with a strictly positive
\* count, whatever today is; it is null, and rendered as the empty string,
\* exactly when no count is positive.
C4_FirstContributionIsEarliestPositive ==
  Evaluated =>
    LET P == PositiveDays(contributions)
    IN /\ P = {} <=> locals.firstContribution = Null
       /\ P = {} <=> result.firstContribution = EmptyString
       /\ P # {} =>
            /\ DateParse(locals.firstContribution) \in P
            /\ \A e \in P : DateParse(locals.firstContribution) <= e

\* the first positive date lies after today and an earlier date is recorded
\* with count zero
C4_Witness ==
  /\ Evaluated
  /\ locals.firstContribution # Null
  /\ DateParse(locals.firstContribution) > ClockDay
  /\ \E d \in DOMAIN contributions :
       contributions[d] = 0 /\ DateParse(d) < DateParse(locals.firstContribution)

\* C5: a positive streak has both boundaries, its end not before its start;
\* a streak of length 0 has both boundaries null; a single-day series
\* evaluated on that day gives 1, 1 and that day everywhere.
C5_BoundariesMatchLengths ==
  Evaluated =>
    /\ locals.currentStreak > 0 =>
         /\ locals.currentStreakStart # Null /\ locals.currentStreakEnd # Null
         /\ DateParse(locals.currentStreakEnd) >= DateParse(locals.currentStreakStart)
         /\ result.currentStreakStart # EmptyString
         /\ result.currentStreakEnd # EmptyString
    /\ locals.longestStreak > 0 =>
         /\ locals.longestStreakStart # Null /\ locals.longestStreakEnd # Null
         /\ DateParse(locals.longestStreakEnd) >= DateParse(locals.longestStreakStart)
         /\ result.longestStreakStart # EmptyString
         /\ result.longestStreakEnd # EmptyString
    /\ locals.currentStreak = 0 =>
         /\ locals.currentStreakStart = Null /\ locals.currentStreakEnd = Null
         /\ result.currentStreakStart = EmptyString
         /\ result.currentStreakEnd = EmptyString
    /\ locals.longestStreak = 0 =>
         /\ locals.longestStreakStart = Null /\ locals.longestStreakEnd = Null
         /\ result.longestStreakStart = EmptyString
         /\ result.longestStreakEnd = EmptyString
    /\ \A D \in DOMAIN contributions :
         DOMAIN contributions = {D} /\ contributions[D] > 0 /\ today(now) = D =>
           /\ locals.currentStreak = 1 /\ locals.longestStreak = 1
           /\ locals.firstContribution = D
           /\ locals.currentStreakStart = D /\ locals.currentStreakEnd = D
           /\ locals.longestStreakStart = D /\ locals.longestStreakEnd = D

\* a current streak of several days that spans the turn of the year
C5_Witness ==
  /\ Evaluated
  /\ locals.currentStreak >= 2
  /\ locals.currentStreakStart[1] < locals.currentStreakEnd[1]
  /\ locals.longestStreak >= 2

\* C6: a series without a positive count (the empty one included) gives
\* both streaks 0, firstContribution null and all four boundaries null for
\* every today; totalContributions is the sum of all counts, 0 here.  (That
\* the computation completes on every series is what evaluating
\* CalculateStreaks on every initial state of SpecCalc shows.)
C6_NoPositiveDayGivesEmptyResult ==
  Evaluated =>
    /\ locals.totalContributions = SumOver(contributions, DOMAIN contributions)
    /\ result.totalContributions = locals.totalContributions
    /\ PositiveDays(contributions) = {} =>
         /\ locals = [currentStreak |-> 0, longestStreak |-> 0,
                      totalContributions |-> 0, firstContribution |-> Null,
                      currentStreakStart |-> Null, currentStreakEnd |-> Null,
                      longestStreakStart |-> Null, longestStreakEnd |-> Null]
         /\ result = [currentStreak |-> 0, longestStreak |-> 0,
                      totalContributions |-> 0,
                      firstContribution |-> EmptyString,
                      currentStreakStart |-> EmptyString,
                      currentStreakEnd |-> EmptyString,
                      longestStreakStart |-> EmptyString,
                      longestStreakEnd |-> EmptyString]

\* a series that records today and yesterday, both with count zero
C6_Witness ==
  /\ Evaluated
  /\ PositiveDays(contributions) = {}
  /\ today(now) \in DOMAIN contributions
  /\ yesterday(now) \in DOMAIN contributions
  /\ Cardinality(DOMAIN contributions) >= 3

\* the observation processed last among those that emitted date d
LastEmitted(d) ==
  LET is == {i \in 1 .. Len(emitted) : emitted[i].date = d}
  IN emitted[CHOOSE i \in is : \A j \in is : j <= i]

\* C7: the keys of the merged series are exactly the dates some year's
\* observation list emitted (no date is added with count 0), and each key
\* carries the count of the observation processed last for that date.
C7_MergeKeepsLastObservation ==
  /\ DOMAIN contributions = {emitted[i].date : i \in 1 .. Len(emitted)}
  /\ \A d \in DOMAIN contributions :
       contributions[d] = LastEmitted(d).contributionCount

\* two years emitted the same date with different counts, another date was
\* emitted by no year, and the series was evaluated
C7_Witness ==
  /\ pc = "resolved" /\ Len(years) = 2
  /\ \E i, j \in 1 .. Len(emitted) :
       /\ i < j /\ emitted[i].date = emitted[j].date
       /\ emitted[i].contributionCount # emitted[j].contributionCount
  /\ \E d \in ObsDates : d \notin DOMAIN contributions

\* C8: without a username fetchStreak fails with its missing-username error
\* before anything else: no upstream request is issued and calculateStreaks
\* does not run; the handler answers with an error and does not call
\* fetchStreak.
C8_MissingUsernameRejectedFirst ==
  username = "" =>
    /\ requests = <<>> /\ calls = 0
    /\ pc \in {"idle", "called", "rejected"}
    /\ pc = "rejected" =>
         condition = "missing" /\ error.message = "Missing username parameter"
    /\ caller = "handler" => pc = "idle"
    /\ hpc = "done" => sent.kind = "error"

\* fetchStreak was called without a username and has rejected
C8_Witness ==
  /\ username = "" /\ caller = "direct" /\ pc = "rejected"
  /\ condition = "missing" /\ requests = <<>>

\* C9: the tag of a failure tells which condition occurred: an unresolved
\* subject is tagged USER_NOT_FOUND (SubjectNotFound), any other upstream
\* failure GRAPHQL_ERROR (UpstreamQueryFailure), and a missing username has
\* a tag of its own (MissingSubject), different from both.
C9_TagIdentifiesCondition ==
  pc = "rejected" =>
    /\ condition = "notfound" => error.type = USER_NOT_FOUND
    /\ condition = "other" => error.type = GRAPHQL_ERROR
    /\ condition = "missing" => error.type \notin {USER_NOT_FOUND, GRAPHQL_ERROR}

\* what the code does: every upstream failure, an unresolved subject
\* included, is tagged GRAPHQL_ERROR, and a missing username USER_NOT_FOUND
TagsOfTheCode ==
  pc = "rejected" =>
    /\ condition \in {"notfound", "other"} => error.type = GRAPHQL_ERROR
    /\ condition = "missing" => error.type = USER_NOT_FOUND
    /\ condition = "notfound" => error.message = "Could not fetch user."

\* no request was issued twice, and none but the year listing and the
\* calendar fetches; a failed invocation evaluated nothing
NoRequestTwice ==
  /\ \A i, j \in 1 .. Len(requests) : i # j => requests[i] # requests[j]
  /\ Len(requests) <= 1 + (IF file = "part_001" THEN 1 ELSE Len(years))
  /\ condition # "none" => pc = "rejected" /\ calls = 0
  /\ pc = "rejected" /\ hpc = "done" => sent.kind = "error"

\* once a request has failed nothing more happens in the invocation
FailureIsFinal ==
  condition # "none" =>
    /\ requests' = requests /\ calls' = calls /\ pc' = pc
    /\ contributions' = contributions /\ condition' = condition

\* C10: in one invocation every upstream request is issued at most once,
\* and the first failure ends it: no further request, no retry, no
\* calculateStreaks on the partial series, no result.
C10_FailsFastWithoutRetry == []NoRequestTwice /\ [][FailureIsFinal]_vars

\* streak-fetcher.js has merged the first year when the fetch of the second
\* year fails
C10_Witness ==
  /\ file = "streak-fetcher.js" /\ pc = "rejected" /\ condition = "other"
  /\ Len(requests) = 3 /\ contributions # EmptySeries /\ calls = 0

\* C13: the current streak is never longer than the longest streak, since
\* every run the backward walk counts is a run the forward scan sees.
C13_CurrentNotLongerThanLongest ==
  Evaluated => locals.currentStreak <= locals.longestStreak

\* the same, for the copy of part_001 alone
CurrentNotLongerThanLongest_part_001 ==
  Evaluated /\ file = "part_001" => locals.currentStreak <= locals.longestStreak

\* C12: calculateStreaks reads the wall clock once, before the current-streak
\* walk; today and yesterday both come from that reading, yesterday being
\* the calendar day before today; and however the clock advances during the
\* computation, what is returned is what the reading at the start gives.
C12_OneClockReadingFixesTheResult ==
  /\ frame.reads <= 1
  /\ frame.pos \in {"today", "yesterday", "walk", "scan", "returned"} => frame.reads = 1
  /\ frame.pos \in {"walk", "scan", "returned"} =>
       /\ frame.today = ToISODate(DateParse(frame.now))
       /\ file = "part_001" => DateParse(frame.yesterday) = DateParse(frame.today) - 1
  /\ frame.pos = "returned" =>
       /\ locals = Calculated(contributions, frame.now)
       /\ result = Returned(Calculated(contributions, frame.now))

\* the clock passed a midnight during a computation whose streak is anchored
\* at yesterday, and a reading at the return would have given another result
C12_Witness ==
  /\ frame.pos = "returned" /\ file = "part_001"
  /\ now # frame.now
  /\ locals.currentStreak > 0 /\ locals.currentStreakEnd = frame.yesterday
  /\ locals # Calculated(contributions, now)

\* what invocation r produces running alone on the responses it received
\* and the same clock: the error of its failure, or the evaluation of the
\* merge of the days it was sent
AloneSeries(r) == MergeDays(EmptySeries, r.seen, 1)
AloneError(r) ==
  IF r.username = "" THEN <<CustomError("Missing username parameter", USER_NOT_FOUND)>>
  ELSE IF r.rejection # <<>> THEN <<Rethrow(r.rejection[1])>>
  ELSE <<>>
AloneResult(r) ==
  IF r.username # "" /\ r.rejection = <<>>
    THEN <<Returned(Calculated(AloneSeries(r), now))>>
    ELSE <<>>

\* every series is the merge of its own invocation's days, and every
\* settled invocation has the outcome it has alone
OwnSeriesOwnOutcome ==
  \A i \in Invocations :
    /\ inv[i].ref # 0 => heap[inv[i].ref] = AloneSeries(inv[i])
    /\ inv[i].pc = "resolved" =>
         inv[i].result = AloneResult(inv[i]) /\ inv[i].error = <<>>
    /\ inv[i].pc = "rejected" =>
         inv[i].error = AloneError(inv[i]) /\ inv[i].result = <<>>

\* a run of one invocation (its failure included) changes neither the
\* state, nor the series, nor the outcome of another
OthersUntouched ==
  \A i, j \in Invocations :
    i # j /\ inv'[i].pc # inv[i].pc =>
      /\ inv'[j].pc = inv[j].pc /\ inv'[j].ref = inv[j].ref
      /\ inv'[j].seen = inv[j].seen
      /\ inv'[j].result = inv[j].result /\ inv'[j].error = inv[j].error
      /\ inv[j].ref # 0 => heap'[inv[j].ref] = heap[inv[j].ref]

\* C11: however fetchStreak invocations interleave at their awaits, each
\* builds and reads only its own series: its result or failure is the one
\* it produces alone on the same responses and the same today, and a run or
\* failure of one invocation changes nothing of another.
C11_InvocationsAreIsolated == []OwnSeriesOwnOutcome /\ [][OthersUntouched]_vars

\* two invocations interleaved while both held a series: one then failed,
\* the other resolved on a different, non-empty series of its own
C11_Witness ==
  /\ inv[1].pc = "rejected" /\ inv[1].ref # 0 /\ inv[1].seen # <<>>
  /\ inv[2].pc = "resolved" /\ inv[2].seen # <<>>
  /\ heap[inv[1].ref] # heap[inv[2].ref]
  /\ inv[1].username # inv[2].username

====
